---- MODULE Spec2Model ----
(***************************************************************************)
(* A model of lingo24/business_documents/jobs.py: the Job entity with its  *)
(* lazily resolved relations, price/metrics parsing, refresh and delete,   *)
(* and the value types Price, JobPrice and Metric.                         *)
(*                                                                         *)
(* Monetary figures are scaled integers: a figure of an API response is a  *)
(* number of thousandths (0.001), a quantized Decimal is a number of       *)
(* hundredths (0.01).  Python objects are numbered by construction order;  *)
(* only the objects reachable from the caller's Job handle are kept.       *)
(***************************************************************************)
EXTENDS Integers, Sequences, FiniteSets, TLC

VARIABLES
    job,      \* the __dict__ the caller's Job handle currently holds
    njobs,    \* number of Job objects constructed so far (next object number)
    calls,    \* call count of every collaborator method (a mock's call_count)
    last,     \* the last operation on the Job: its input, client reply and result
    args,     \* operands of the value arithmetic (Price, JobPrice, Metric)
    result    \* result of the last value arithmetic operation

vars == <<job, njobs, calls, last, args, result>>

----------------------------------------------------------------------------
(* Bounds of the model *)

\* total number of collaborator calls explored
MaxCalls == 2
\* largest figure of a price response, in thousandths
MaxMilli == 6
\* largest sum of all the counters of one metrics response
MaxRespCount == 1
\* largest net + gross of a Price operand, in hundredths
MaxCents == 1
\* largest sum of the four counters of a Metric operand
MaxCount == 2

----------------------------------------------------------------------------
(* Values *)

None == "None"

\* the object number of the Job the caller holds
Handle == 0

\* jobs.py:85 and :112, the status code that is turned into a value
HTTP_NOT_FOUND == 404

JobId == "job-1"
JobCollectionId == "jobs"

Statuses == {"NEW", "COMPLETE"}

\* The own fields of a Job as the remote service may report them.
FetchedJobs ==
    [id : {JobId}, status : Statuses, service_id : {"svc"},
     source_locale_id : {"en"}, target_locale_id : {"fr", None},
     source_file_id : {"f-src"}, target_file_id : {"f-tgt", None}]

\* JobFileCollection.__init__: the collection keeps a back-reference to its Job.
\* id is the identity of the collection object: the number of the Job whose
\* construction created it.
JobFileCollection(jobObj) == [id |-> jobObj, job |-> jobObj]

\* Job.__init__ of object number obj: stores every argument and creates the
\* object's own JobFileCollection bound to that same object.
NewJob(collection, f, obj) ==
    [collection |-> collection,
     id |-> f.id,
     status |-> f.status,
     service_id |-> f.service_id,
     source_locale_id |-> f.source_locale_id,
     target_locale_id |-> f.target_locale_id,
     source_file_id |-> f.source_file_id,
     target_file_id |-> f.target_file_id,
     files |-> JobFileCollection(obj)]

\* The fields Job.__eq__ compares.
OwnFields(j) ==
    [id |-> j.id, status |-> j.status, service_id |-> j.service_id,
     source_locale_id |-> j.source_locale_id,
     target_locale_id |-> j.target_locale_id,
     source_file_id |-> j.source_file_id,
     target_file_id |-> j.target_file_id]

JobEq(a, b) == a.collection = b.collection /\ OwnFields(a) = OwnFields(b)

\* collection.item_url_path(id)
ItemUrlPath(collection, id) == <<collection, id>>

\* Job.url_path
url_path(j) == ItemUrlPath(j.collection, j.id)

\* JobFileCollection.url_path: '{}/files'.format(self.job.url_path).  The
\* __dict__ of the Job a reachable collection refers to is always the
\* __dict__ j of the handle: either that Job is the handle, or it is the
\* fetched copy whose __dict__ the handle adopted in refresh().
FilesUrlPath(j) == Append(url_path(j), "files")

\* JobFileCollection.clone: a new collection built with job=self.job
CloneFiles(c, obj) == [id |-> obj, job |-> c.job]

----------------------------------------------------------------------------
(* Exceptions and results *)

NoExc == [type |-> "none", has_response |-> FALSE, status_code |-> 0]

\* requests.RequestException as the client raises it: an HTTP error carries a
\* response with a status code; a connection error or a timeout carries
\* response = None.
RequestExceptions ==
    { [type |-> "HTTPError", has_response |-> TRUE, status_code |-> s] :
          s \in {HTTP_NOT_FOUND, 500} }
    \cup { [type |-> "ConnectionError", has_response |-> FALSE, status_code |-> 0] }

\* what a registry lookup raises when it fails
RegistryError == [type |-> "RegistryError", has_response |-> FALSE, status_code |-> 0]

NoValue == [kind |-> "no-value"]
NoneValue == [kind |-> "None"]

Return(v) == [outcome |-> "return", value |-> v,
              exc |-> [type |-> "none", cause |-> NoExc]]

Raise(t, cause) == [outcome |-> "raise", value |-> NoValue,
                    exc |-> [type |-> t, cause |-> cause]]

\* an exception that passes through a method untouched
Propagate(e) == Raise(e.type, NoExc)

\* exceptions.reraise(APIError): raises APIError wrapping the exception
\* being handled
Reraise(e) == Raise("APIError", e)

----------------------------------------------------------------------------
(* Collaborators *)

Collaborators ==
    {"services.get", "locales.get", "files.get",
     "api_get_json", "api_delete", "jobs.get"}

TotalCalls ==
    calls["services.get"] + calls["locales.get"] + calls["files.get"]
    + calls["api_get_json"] + calls["api_delete"] + calls["jobs.get"]

CanCall == TotalCalls < MaxCalls

Called(c) == [calls EXCEPT ![c] = @ + 1]

NoReply == [ok |-> TRUE, exc |-> NoExc, body |-> NoValue]

LookupReplies ==
    { [ok |-> TRUE, exc |-> NoExc, body |-> NoValue],
      [ok |-> FALSE, exc |-> RegistryError, body |-> NoValue] }

Failures == { [ok |-> FALSE, exc |-> e, body |-> NoValue] : e \in RequestExceptions }

DeleteReplies == { [ok |-> TRUE, exc |-> NoExc, body |-> NoValue] } \cup Failures

JobsGetReplies ==
    { [ok |-> TRUE, exc |-> NoExc, body |-> f] : f \in FetchedJobs }
    \cup { [ok |-> FALSE, exc |-> RegistryError, body |-> NoValue] }

Record(op, arg, reply, before, res) ==
    [op |-> op, arg |-> arg, reply |-> reply, before |-> before, res |-> res]

NoCalls == [c \in Collaborators |-> 0]

Idle == Record("none", None, NoReply, NoCalls, Return(NoValue))

----------------------------------------------------------------------------
(* Value types *)

\* jobs.py:10, DP2 = Decimal('0.00'): two decimal places
DP2 == 2

Currencies == {"GBP", "EUR"}

\* Price.__init__
Price(currency_code, net, gross) ==
    [kind |-> "Price", currency_code |-> currency_code, net |-> net, gross |-> gross]

\* JobPrice.__init__
JobPrice(with, without) ==
    [kind |-> "JobPrice", total_with_discount |-> with,
     total_without_discount |-> without]

\* Metric.__init__
Metric(white_spaces, segments, words, characters) ==
    [kind |-> "Metric", white_spaces |-> white_spaces, segments |-> segments,
     words |-> words, characters |-> characters]

\* Price.tax
tax(p) == p.gross - p.net

\* a quantize that drops the third fractional digit instead of rounding
QuantizeTruncated(x) == x \div (10 ^ (3 - DP2))

\* Decimal(str(x)).quantize(DP2) of a figure x given in thousandths, as a
\* number of hundredths.  quantize rounds with the rounding of the decimal
\* context, which is ROUND_HALF_EVEN by default.
Quantize(x) ==
    LET unit == 10 ^ (3 - DP2)
        q == x \div unit
        r == x % unit
    IN  IF 2 * r < unit THEN q
        ELSE IF 2 * r > unit THEN q + 1
        ELSE IF q % 2 = 0 THEN q ELSE q + 1

\* an addition that adds the other operand's net into the gross
PriceAddMixed(a, b) ==
    IF a.currency_code # b.currency_code
    THEN Raise("ValueError", NoExc)
    ELSE Return(Price(a.currency_code, a.net + b.net, a.gross + b.net))

\* Price.__add__
PriceAdd(a, b) ==
    IF a.currency_code # b.currency_code
    THEN Raise("ValueError", NoExc)
    ELSE Return(Price(a.currency_code, a.net + b.net, a.gross + b.gross))

\* an addition that adds the other operand's discounted total to both totals
JobPriceAddCrossed(a, b) ==
    LET with == PriceAdd(a.total_with_discount, b.total_with_discount)
        without == PriceAdd(a.total_without_discount, b.total_with_discount)
    IN  IF with.outcome = "raise" THEN with
        ELSE IF without.outcome = "raise" THEN without
        ELSE Return(JobPrice(with.value, without.value))

\* JobPrice.__add__: the discounted totals are added first, and an exception
\* of either addition ends the whole addition
JobPriceAdd(a, b) ==
    LET with == PriceAdd(a.total_with_discount, b.total_with_discount)
        without == PriceAdd(a.total_without_discount, b.total_without_discount)
    IN  IF with.outcome = "raise" THEN with
        ELSE IF without.outcome = "raise" THEN without
        ELSE Return(JobPrice(with.value, without.value))

\* an addition that leaves the other operand's words out
MetricAddLopsided(a, b) ==
    Metric(a.white_spaces + b.white_spaces, a.segments + b.segments,
           a.words, a.characters + b.characters)

\* Metric.__add__
MetricAdd(a, b) ==
    Metric(a.white_spaces + b.white_spaces, a.segments + b.segments,
           a.words + b.words, a.characters + b.characters)

\* Metric.__eq__
MetricEq(a, b) ==
    /\ a.white_spaces = b.white_spaces
    /\ a.segments = b.segments
    /\ a.words = b.words
    /\ a.characters = b.characters

----------------------------------------------------------------------------
(* Client replies to price and metrics *)

\* the figures of a price response, in thousandths, from the first tie
\* between two hundredths (0.005) upwards
Figures == 5..MaxMilli

PriceResponses ==
    [currencyCode : Currencies,
     totalWoVatWDiscount : Figures, totalWVatWDiscount : Figures,
     totalWoVatWoDiscount : Figures, totalWVatWoDiscount : Figures]

PriceReplies ==
    { [ok |-> TRUE, exc |-> NoExc, body |-> r] : r \in PriceResponses } \cup Failures

MetricKeys == {"TRANSLATION", "PROOFREAD"}

MetricData ==
    [WHITE_SPACES : 0..MaxRespCount, SEGMENTS : 0..MaxRespCount,
     WORDS : 0..MaxRespCount, CHARACTERS : 0..MaxRespCount]

CounterSum(d) == d.WHITE_SPACES + d.SEGMENTS + d.WORDS + d.CHARACTERS

\* the 'values' object of a metrics response: no entry, one entry, or one
\* entry per key, holding at most MaxRespCount counted units in all
MetricsResponses ==
    { <<>> }
    \cup { [ks \in {k} |-> d] : k \in MetricKeys,
            d \in { x \in MetricData : CounterSum(x) <= MaxRespCount } }
    \cup { v \in [MetricKeys -> MetricData] :
            CounterSum(v["TRANSLATION"]) + CounterSum(v["PROOFREAD"]) <= MaxRespCount }

MetricsReplies ==
    { [ok |-> TRUE, exc |-> NoExc, body |-> [values |-> v]] : v \in MetricsResponses }
    \cup Failures

\* Job.price, after the client's reply
PriceResult(reply) ==
    IF ~reply.ok
    THEN IF ~reply.exc.has_response
         THEN Raise("AttributeError", NoExc)   \* exc.response is None
         ELSE IF reply.exc.status_code = HTTP_NOT_FOUND
              THEN Return(NoneValue)
              ELSE Reraise(reply.exc)
    ELSE LET response == reply.body
         IN  Return(JobPrice(
                 Price(response.currencyCode,
                       Quantize(response.totalWoVatWDiscount),
                       Quantize(response.totalWVatWDiscount)),
                 Price(response.currencyCode,
                       Quantize(response.totalWoVatWoDiscount),
                       Quantize(response.totalWVatWoDiscount))))

\* to_metric of Job.metrics
to_metric(data) ==
    Metric(data.WHITE_SPACES, data.SEGMENTS, data.WORDS, data.CHARACTERS)

\* Job.metrics, after the client's reply
MetricsResult(reply) ==
    IF ~reply.ok
    THEN IF ~reply.exc.has_response
         THEN Raise("AttributeError", NoExc)   \* exc.response is None
         ELSE IF reply.exc.status_code = HTTP_NOT_FOUND
              THEN Return([kind |-> "dict", items |-> <<>>])
              ELSE Reraise(reply.exc)
    ELSE Return([kind |-> "dict",
                 items |-> [k \in DOMAIN reply.body.values |->
                               to_metric(reply.body.values[k])]])

\* Job.delete, after the client's reply
DeleteResult(reply) ==
    IF reply.ok THEN Return(NoneValue) ELSE Reraise(reply.exc)

\* a registry lookup by id, after the registry's reply
LookupResult(registry, id, reply) ==
    IF reply.ok
    THEN Return([kind |-> registry, id |-> id])
    ELSE Propagate(reply.exc)

----------------------------------------------------------------------------
(* Operations on the Job *)

NoResult == [op |-> "none", res |-> Return(NoValue)]

ValueIdle == args = [kind |-> "none", xs |-> <<>>] /\ result = NoResult

Init ==
    /\ \E f \in FetchedJobs : job = NewJob(JobCollectionId, f, Handle)
    /\ njobs = 1
    /\ calls = NoCalls
    /\ last = Idle
    /\ ValueIdle

\* a lookup that is answered from a cache once the registry has been asked
LookupMemoized(op, registry, id, reply) ==
    IF calls[registry] > 0
    THEN /\ last' = Record(op, id, NoReply, calls, Return([kind |-> registry, id |-> id]))
         /\ UNCHANGED <<job, njobs, calls, args, result>>
    ELSE /\ CanCall
         /\ calls' = Called(registry)
         /\ last' = Record(op, id, reply, calls, LookupResult(registry, id, reply))
         /\ UNCHANGED <<job, njobs, args, result>>

\* one lookup on a registry of the client
Lookup(op, registry, id, reply) ==
    /\ CanCall
    /\ calls' = Called(registry)
    /\ last' = Record(op, id, reply, calls, LookupResult(registry, id, reply))
    /\ UNCHANGED <<job, njobs, args, result>>

\* Job.service
Service(reply) == Lookup("service", "services.get", job.service_id, reply)

\* Job.source_locale
SourceLocale(reply) ==
    Lookup("source_locale", "locales.get", job.source_locale_id, reply)

\* Job.target_locale
TargetLocale(reply) ==
    Lookup("target_locale", "locales.get", job.target_locale_id, reply)

\* Job.source_file
SourceFile(reply) == Lookup("source_file", "files.get", job.source_file_id, reply)

\* a target_file without the check for an absent id
TargetFileUnguarded(reply) ==
    /\ CanCall
    /\ calls' = Called("files.get")
    /\ last' = Record("target_file", job.target_file_id, reply, calls,
                      LookupResult("files.get", job.target_file_id, reply))
    /\ UNCHANGED <<job, njobs, args, result>>

\* Job.target_file
TargetFile(reply) ==
    IF job.target_file_id = None
    THEN /\ last' = Record("target_file", None, NoReply, calls, Return(NoneValue))
         /\ UNCHANGED <<job, njobs, calls, args, result>>
    ELSE Lookup("target_file", "files.get", job.target_file_id, reply)

\* Job.price
PriceOp(reply) ==
    /\ CanCall
    /\ calls' = Called("api_get_json")
    /\ last' = Record("price", Append(url_path(job), "price"), reply, calls,
                      PriceResult(reply))
    /\ UNCHANGED <<job, njobs, args, result>>

\* Job.metrics
MetricsOp(reply) ==
    /\ CanCall
    /\ calls' = Called("api_get_json")
    /\ last' = Record("metrics", Append(url_path(job), "metrics"), reply, calls,
                      MetricsResult(reply))
    /\ UNCHANGED <<job, njobs, args, result>>

\* a refresh that takes over the status alone
RefreshedStatusOnly(j, reply, obj) == [j EXCEPT !.status = reply.body.status]

\* The __dict__ the handle holds after refresh() fetched reply: the __dict__
\* of the fetched copy, which Job.__init__ built as object number obj.
Refreshed(j, reply, obj) == NewJob(j.collection, reply.body, obj)

\* Job.refresh
Refresh(reply) ==
    /\ CanCall
    /\ calls' = Called("jobs.get")
    /\ IF reply.ok
       THEN /\ job' = Refreshed(job, reply, njobs)
            /\ njobs' = njobs + 1
            /\ last' = Record("refresh", job.id, reply, calls, Return(NoneValue))
       ELSE /\ UNCHANGED <<job, njobs>>
            /\ last' = Record("refresh", job.id, reply, calls, Propagate(reply.exc))
    /\ UNCHANGED <<args, result>>

\* a delete that records the deletion in the local status
DeleteMarking(reply) ==
    /\ CanCall
    /\ calls' = Called("api_delete")
    /\ job' = IF reply.ok THEN [job EXCEPT !.status = "DELETED"] ELSE job
    /\ last' = Record("delete", url_path(job), reply, calls,
                      IF reply.ok THEN Return(NoneValue) ELSE Raise("APIError", reply.exc))
    /\ UNCHANGED <<njobs, args, result>>

\* Job.delete
Delete(reply) ==
    /\ CanCall
    /\ calls' = Called("api_delete")
    /\ last' = Record("delete", url_path(job), reply, calls, DeleteResult(reply))
    /\ UNCHANGED <<job, njobs, args, result>>

\* job.files.clone()
FilesClone ==
    /\ last' = Record("files.clone", None, NoReply, calls,
                      Return([kind |-> "JobFileCollection",
                              files |-> CloneFiles(job.files, njobs)]))
    /\ UNCHANGED <<job, njobs, calls, args, result>>

Next ==
    \/ \E reply \in LookupReplies : Service(reply)
    \/ \E reply \in LookupReplies : SourceLocale(reply)
    \/ \E reply \in LookupReplies : TargetLocale(reply)
    \/ \E reply \in LookupReplies : SourceFile(reply)
    \/ \E reply \in LookupReplies : TargetFile(reply)
    \/ \E reply \in PriceReplies : PriceOp(reply)
    \/ \E reply \in MetricsReplies : MetricsOp(reply)
    \/ \E reply \in JobsGetReplies : Refresh(reply)
    \/ \E reply \in DeleteReplies : Delete(reply)
    \/ FilesClone

Spec == Init /\ [][Next]_vars

----------------------------------------------------------------------------
(* Value arithmetic on operands drawn from bounded sets *)

Prices ==
    { p \in { Price(c, n, g) :
                c \in Currencies, n \in 0..MaxCents, g \in 0..MaxCents } :
        p.net + p.gross <= MaxCents }

JobPrices == { JobPrice(w, wo) : w \in Prices, wo \in Prices }

Metrics ==
    { m \in { Metric(ws, sg, wd, ch) :
                ws \in 0..MaxCount, sg \in 0..MaxCount,
                wd \in 0..MaxCount, ch \in 0..MaxCount } :
        m.white_spaces + m.segments + m.words + m.characters <= MaxCount }

\* the operands of one addition: two Prices, two JobPrices or three Metrics
IsOperands(o) ==
    \/ \E a \in Prices, b \in Prices : o = [kind |-> "Price", xs |-> <<a, b>>]
    \/ \E a \in JobPrices, b \in JobPrices :
          o = [kind |-> "JobPrice", xs |-> <<a, b>>]
    \/ \E a \in Metrics, b \in Metrics, c \in Metrics :
          o = [kind |-> "Metric", xs |-> <<a, b, c>>]

ValueInit ==
    /\ job = NewJob(JobCollectionId,
                    [id |-> JobId, status |-> "NEW", service_id |-> "svc",
                     source_locale_id |-> "en", target_locale_id |-> "fr",
                     source_file_id |-> "f-src", target_file_id |-> None],
                    Handle)
    /\ njobs = 1
    /\ calls = NoCalls
    /\ last = Idle
    /\ IsOperands(args)
    /\ result = NoResult

\* a + b on two Prices
AddPrices ==
    /\ args.kind = "Price"
    /\ result' = [op |-> "Price.__add__", res |-> PriceAdd(args.xs[1], args.xs[2])]
    /\ UNCHANGED <<job, njobs, calls, last, args>>

\* a + b on two JobPrices
AddJobPrices ==
    /\ args.kind = "JobPrice"
    /\ result' = [op |-> "JobPrice.__add__",
                  res |-> JobPriceAdd(args.xs[1], args.xs[2])]
    /\ UNCHANGED <<job, njobs, calls, last, args>>

\* m1 + m2 and the three groupings of m1, m2, m3
AddMetrics ==
    /\ args.kind = "Metric"
    /\ LET m1 == args.xs[1]
           m2 == args.xs[2]
           m3 == args.xs[3]
       IN  result' =
             [op |-> "Metric.__add__",
              res |-> Return([kind |-> "sums",
                              pair |-> MetricAdd(m1, m2),
                              left |-> MetricAdd(MetricAdd(m1, m2), m3),
                              right |-> MetricAdd(m1, MetricAdd(m2, m3)),
                              swapped |-> MetricAdd(m2, MetricAdd(m1, m3))])]
    /\ UNCHANGED <<job, njobs, calls, last, args>>

ValueNext == AddPrices \/ AddJobPrices \/ AddMetrics

ValueSpec == ValueInit /\ [][ValueNext]_vars

----------------------------------------------------------------------------
(* Properties *)

\* C1: a + b on Prices raises the currency error exactly when the currency
\* codes differ; otherwise the result carries the common code, the sum of
\* the nets and the sum of the grosses; the operands are never changed.
C1_PriceAddState ==
    (args.kind = "Price" /\ result.op = "Price.__add__") =>
        LET a == args.xs[1]
            b == args.xs[2]
            r == result.res
        IN  /\ (r.outcome = "raise") <=> (a.currency_code # b.currency_code)
            /\ r.outcome = "raise" => r.exc.type = "ValueError"
            /\ a.currency_code = b.currency_code =>
                  /\ r.outcome = "return"
                  /\ r.value.kind = "Price"
                  /\ r.value.currency_code = a.currency_code
                  /\ r.value.net = a.net + b.net
                  /\ r.value.gross = a.gross + b.gross

C1_PriceAdd == []C1_PriceAddState /\ [][args' = args]_vars

C1_Witness ==
    /\ args.kind = "Price"
    /\ result.op = "Price.__add__"
    /\ result.res.outcome = "return"
    /\ result.res.value.net > 0
    /\ result.res.value.gross > 0

\* C2: a failed client call of price or metrics becomes None or the empty
\* mapping exactly when it is an HTTP 404; every other failure of price and
\* metrics, and every failure of delete, reaches the caller as an APIError
\* that wraps the original failure.
C2_ErrorPolicy ==
    /\ (last.op \in {"price", "metrics"} /\ ~last.reply.ok) =>
          IF last.reply.exc.has_response
             /\ last.reply.exc.status_code = HTTP_NOT_FOUND
          THEN /\ last.res.outcome = "return"
               /\ last.op = "price" => last.res.value = NoneValue
               /\ last.op = "metrics" =>
                     last.res.value = [kind |-> "dict", items |-> <<>>]
          ELSE last.res = Raise("APIError", last.reply.exc)
    /\ (last.op = "delete" /\ ~last.reply.ok) =>
          last.res = Raise("APIError", last.reply.exc)

\* C3 as stated: an access of target_locale or of target_file whose id is
\* None returns None and leaves the call counts of the registries unchanged.
C3_Original ==
    /\ (last.op = "target_locale" /\ job.target_locale_id = None) =>
          last.res = Return(NoneValue) /\ calls = last.before
    /\ (last.op = "target_file" /\ job.target_file_id = None) =>
          last.res = Return(NoneValue) /\ calls = last.before

\* C3 as amended: an access of target_file whose id is None returns None
\* and issues no call at all; every access of target_locale, the one with
\* a None id included, issues one locales.get call with the id it holds.
C3_TargetShortCircuit ==
    /\ (last.op = "target_file" /\ job.target_file_id = None) =>
          last.res = Return(NoneValue) /\ calls = last.before
    /\ last.op = "target_locale" =>
          /\ calls = [last.before EXCEPT !["locales.get"] = @ + 1]
          /\ last.arg = job.target_locale_id

C3_Witness ==
    /\ last.op = "target_file"
    /\ job.target_file_id = None
    /\ TotalCalls > 0

\* C4: a successful refresh leaves the job with the own fields of the copy
\* it fetched, in the same collection and with the same id; a second
\* refresh that fetches an equal copy leaves the fields as the first did.
C4_Refresh ==
    [][ (last'.op = "refresh" /\ last'.res.outcome = "return") =>
          /\ OwnFields(job') = last'.reply.body
          /\ job'.id = job.id
          /\ job'.collection = job.collection
          /\ (last.op = "refresh" /\ last.res.outcome = "return"
               /\ last'.reply.body = last.reply.body) => JobEq(job', job) ]_vars

C4_Witness ==
    /\ last.op = "refresh"
    /\ last.res.outcome = "return"
    /\ njobs = 3
    /\ job.target_file_id # None

\* C5: delete issues exactly one api_delete, on the job's own resource path,
\* and leaves every field of the job as it was, whether the delete
\* succeeds or fails.
C5_DeleteFrame ==
    [][ last'.op = "delete" =>
          /\ job' = job
          /\ njobs' = njobs
          /\ calls' = [calls EXCEPT !["api_delete"] = @ + 1]
          /\ last'.arg = ItemUrlPath(job.collection, job.id) ]_vars

C5_Witness ==
    /\ last.op = "delete"
    /\ last.res.outcome = "return"
    /\ calls["api_delete"] = 2

CollaboratorOf(op) ==
    CASE op = "service" -> "services.get"
      [] op \in {"source_locale", "target_locale"} -> "locales.get"
      [] op \in {"source_file", "target_file"} -> "files.get"
      [] op \in {"price", "metrics"} -> "api_get_json"
      [] op = "refresh" -> "jobs.get"
      [] op = "delete" -> "api_delete"

\* C6: every access of a relation (target_file with an id that is not None),
\* of price and of metrics, and every refresh and delete, issues exactly one
\* call, on its own collaborator, whether the call succeeds or fails: nothing
\* is answered from a cache and nothing is retried.
C6_OneCallEach ==
    (/\ last.op \in {"service", "source_locale", "target_locale", "source_file",
                      "target_file", "price", "metrics", "refresh", "delete"}
     /\ last.op = "target_file" => job.target_file_id # None) =>
        calls = [last.before EXCEPT ![CollaboratorOf(last.op)] = @ + 1]

C6_Witness ==
    /\ last.op = "source_locale"
    /\ last.res.outcome = "raise"
    /\ calls["locales.get"] = 2

\* C7: a + b on JobPrices raises the currency error exactly when the codes
\* of the discounted totals differ or the codes of the undiscounted totals
\* differ; otherwise each total of the result is the sum of the operands'
\* totals of that kind.
C7_JobPriceAdd ==
    (args.kind = "JobPrice" /\ result.op = "JobPrice.__add__") =>
        LET a == args.xs[1]
            b == args.xs[2]
            r == result.res
            differ ==
              \/ a.total_with_discount.currency_code
                   # b.total_with_discount.currency_code
              \/ a.total_without_discount.currency_code
                   # b.total_without_discount.currency_code
        IN  /\ (r.outcome = "raise") <=> differ
            /\ r.outcome = "raise" => r.exc.type = "ValueError"
            /\ ~differ =>
                  /\ r.value.kind = "JobPrice"
                  /\ Return(r.value.total_with_discount)
                       = PriceAdd(a.total_with_discount, b.total_with_discount)
                  /\ Return(r.value.total_without_discount)
                       = PriceAdd(a.total_without_discount, b.total_without_discount)
                  /\ r.value.total_without_discount.net
                       = a.total_without_discount.net + b.total_without_discount.net
                  /\ r.value.total_without_discount.gross
                       = a.total_without_discount.gross + b.total_without_discount.gross
                  /\ r.value.total_with_discount.net
                       = a.total_with_discount.net + b.total_with_discount.net
                  /\ r.value.total_with_discount.gross
                       = a.total_with_discount.gross + b.total_with_discount.gross

C7_Witness ==
    /\ args.kind = "JobPrice"
    /\ result.op = "JobPrice.__add__"
    /\ result.res.outcome = "return"
    /\ result.res.value.total_with_discount.currency_code
         # result.res.value.total_without_discount.currency_code
    /\ result.res.value.total_without_discount.gross > 0

\* C8: m1 + m2 has every counter equal to the sum of the operands' counters,
\* and (m1 + m2) + m3, m1 + (m2 + m3) and m2 + (m1 + m3) are equal under
\* Metric.__eq__.
C8_MetricAdd ==
    (args.kind = "Metric" /\ result.op = "Metric.__add__") =>
        LET m1 == args.xs[1]
            m2 == args.xs[2]
            s == result.res.value
        IN  /\ result.res.outcome = "return"
            /\ s.pair.white_spaces = m1.white_spaces + m2.white_spaces
            /\ s.pair.segments = m1.segments + m2.segments
            /\ s.pair.words = m1.words + m2.words
            /\ s.pair.characters = m1.characters + m2.characters
            /\ MetricEq(s.left, s.right)
            /\ MetricEq(s.right, s.swapped)

C8_Witness ==
    /\ args.kind = "Metric"
    /\ result.op = "Metric.__add__"
    /\ args.xs[1] # args.xs[2]
    /\ args.xs[2] # args.xs[3]
    /\ result.res.value.left.words > 1

\* r hundredths is x thousandths rounded to two fractional digits: the
\* nearest hundredth, and the even one of two that are equally near
RoundedTo2(x, r) ==
    LET d == IF 10 * r >= x THEN 10 * r - x ELSE x - 10 * r
    IN  d < 5 \/ (d = 5 /\ r % 2 = 0)

\* C9: on a successful price response both Prices carry the response's
\* currencyCode, each of the four figures goes to its own net or gross
\* rounded to two fractional digits, and tax is gross - net of the rounded
\* figures.
C9_PriceParse ==
    (last.op = "price" /\ last.reply.ok) =>
        LET response == last.reply.body
            v == last.res.value
        IN  /\ last.res.outcome = "return"
            /\ v.kind = "JobPrice"
            /\ v.total_with_discount.currency_code = response.currencyCode
            /\ v.total_without_discount.currency_code = response.currencyCode
            /\ RoundedTo2(response.totalWoVatWDiscount, v.total_with_discount.net)
            /\ RoundedTo2(response.totalWVatWDiscount, v.total_with_discount.gross)
            /\ RoundedTo2(response.totalWoVatWoDiscount, v.total_without_discount.net)
            /\ RoundedTo2(response.totalWVatWoDiscount, v.total_without_discount.gross)
            /\ tax(v.total_with_discount)
                 = v.total_with_discount.gross - v.total_with_discount.net
            /\ tax(v.total_without_discount)
                 = v.total_without_discount.gross - v.total_without_discount.net

C9_Witness ==
    /\ last.op = "price"
    /\ last.reply.ok
    /\ last.reply.body.totalWoVatWDiscount = 5
    /\ last.reply.body.totalWVatWDiscount = 6
    /\ tax(last.res.value.total_with_discount) = 1
    /\ tax(last.res.value.total_without_discount) < 0

\* C10: job.files is always the JobFileCollection the caller's Job created
\* at its construction, job.files.job is that Job, job.files.url_path is
\* job.url_path followed by 'files', and a clone of job.files keeps the
\* back-reference.
C10_FilesBound ==
    /\ job.files.id = Handle
    /\ job.files.job = Handle
    /\ FilesUrlPath(job) = Append(url_path(job), "files")
    /\ last.op = "files.clone" => last.res.value.files.job = job.files.job

====
